---------------------------- MODULE Spec2Model ----------------------------
(***************************************************************************)
(* A model of the datadriven test harness (src/src/lib.rs): the directive  *)
(* grammar parser, the test-file scanner (TestFile::parse), the serializer *)
(* (write_result / run_rewrite), the run engine (run_normal, run_rewrite)  *)
(* and the directory walk (walk_exclusive).                                *)
(*                                                                         *)
(* Text is a sequence of characters, each a one-character string; "\n" is  *)
(* the line feed.  No text of the model holds a carriage return, so the    *)
(* "\r\n" case of str::lines never arises.                                 *)
(***************************************************************************)
EXTENDS Integers, Sequences, FiniteSets, TLC

(***************************************************************************)
(* Bounds of the model.                                                    *)
(***************************************************************************)
\* longest file, in lines, of the scanner specification
MaxLines == 4
\* longest evaluation result, in characters, of the serializer specification
MaxResLen == 5
\* most test cases in a file of the run specification
MaxCases == 3
\* most files in the directory of the walk specification
MaxFiles == 2
\* the arguments of a directive line
MaxArgs == 3
\* the take operations on one test case
MaxTakes == 2

(***************************************************************************)
(* Characters and strings.                                                 *)
(***************************************************************************)
NL == "\n"

\* Option::None of a character (peek at the end of the line)
NoChar == "<eof>"

\* Option::None of a failure message or an error
None == [kind |-> "None"]

Dashes == <<"-", "-", "-", "-">>

NoNewlineMarker ==
    <<"-", "-", "-", "-", " ", "(", "n", "o", " ",
      "n", "e", "w", "l", "i", "n", "e", ")">>

\* char::is_ascii_whitespace, and the white space str::trim strips, over the
\* characters of the model
IsWhitespace(ch) == ch \in {" ", "\t", "\n", "\r", "\f"}

\* s.trim() == ""
TrimIsEmpty(s) == \A k \in 1..Len(s) : IsWhitespace(s[k])

\* s.ends_with('\n')
EndsWithNL(s) == Len(s) > 0 /\ s[Len(s)] = NL

\* s.contains("\n\n")
ContainsBlankLine(s) == \E k \in 1..(Len(s) - 1) : s[k] = NL /\ s[k + 1] = NL

\* chars().take_while(|c| *c != '#')
RECURSIVE TakeUntilHash(_)
TakeUntilHash(s) ==
    IF s = <<>> \/ Head(s) = "#" THEN <<>>
    ELSE <<Head(s)>> \o TakeUntilHash(Tail(s))

\* str::lines: split at every "\n"; a last line without "\n" counts, an empty
\* remainder after the last "\n" does not
RECURSIVE Lines(_)
Lines(t) ==
    IF t = <<>> THEN <<>>
    ELSE IF \E k \in 1..Len(t) : t[k] = NL
         THEN LET k == CHOOSE j \in 1..Len(t) :
                           t[j] = NL /\ \A m \in 1..(j - 1) : t[m] # NL
              IN  <<SubSeq(t, 1, k - 1)>> \o Lines(SubSeq(t, k + 1, Len(t)))
         ELSE <<t>>

(***************************************************************************)
(* DataDrivenError                                                         *)
(***************************************************************************)
\* DataDrivenError::Parse(message): the message's text, and what the format
\* string puts in it (the context, the offending text, the line number)
ParseError(msg, context, got, line) ==
    [kind |-> "Parse", msg |-> msg, context |-> context, got |-> got,
     line |-> line]

with_line(e, line) ==
    IF e.kind = "WithContext"
    THEN [kind |-> "WithContext", line |-> line, filename |-> e.filename,
          inner |-> e.inner]
    ELSE [kind |-> "WithContext", line |-> line, filename |-> "",
          inner |-> e]

\* a with_filename that wraps every error anew, with the default line
with_filename_anew(e, filename) ==
    [kind |-> "WithContext", line |-> 0, filename |-> filename, inner |-> e]

with_filename(e, filename) ==
    IF e.kind = "WithContext"
    THEN [kind |-> "WithContext", line |-> e.line, filename |-> filename,
          inner |-> e.inner]
    ELSE [kind |-> "WithContext", line |-> 0, filename |-> filename,
          inner |-> e]

(***************************************************************************)
(* DirectiveParser.  idx counts the characters consumed, as in the source; *)
(* the next character is chars[idx + 1].                                   *)
(***************************************************************************)
Letters == {"a", "b", "c", "d", "e", "f", "g", "h", "i", "j", "k", "l", "m",
            "n", "o", "p", "q", "r", "s", "t", "u", "v", "w", "x", "y", "z"}

Digits == {"0", "1", "2", "3", "4", "5", "6", "7", "8", "9"}

is_wordchar(ch) == ch \in Letters \cup Digits \cup {"-", "_", "."}

RECURSIVE munch(_, _)
munch(chars, idx) ==
    IF idx < Len(chars) /\ IsWhitespace(chars[idx + 1])
    THEN munch(chars, idx + 1)
    ELSE idx

peek(chars, idx) == IF idx >= Len(chars) THEN NoChar ELSE chars[idx + 1]

\* whether eat(ch) consumes; the caller advances idx by one when it does
eat(chars, idx, ch) == idx < Len(chars) /\ chars[idx + 1] = ch

at_end(chars, idx) == idx >= Len(chars)

\* the loop of parse_word: the index behind the last word character
RECURSIVE WordEnd(_, _)
WordEnd(chars, idx) ==
    IF peek(chars, idx) # NoChar /\ is_wordchar(peek(chars, idx))
    THEN WordEnd(chars, idx + 1)
    ELSE idx

\* a parse_word that takes the empty word for a word
WordResultLax(chars, start, idx, context) ==
    [ok |-> TRUE, word |-> SubSeq(chars, start + 1, idx),
     idx |-> munch(chars, idx)]

\* parse_word behind its loop, which ran from start to idx
WordResult(chars, start, idx, context) ==
    IF idx = start
    THEN [ok |-> FALSE,
          err |-> IF peek(chars, idx) # NoChar
                  THEN ParseError("expected {}, got {}", context,
                                  <<peek(chars, idx)>>, 0)
                  ELSE ParseError("expected {} but directive line ended",
                                  context, <<>>, 0)]
    ELSE [ok |-> TRUE, word |-> SubSeq(chars, start + 1, idx),
          idx |-> munch(chars, idx)]

parse_word(chars, start, context) ==
    WordResult(chars, start, WordEnd(chars, start), context)

\* the loop of parse_vals, entered behind "(" and its white space: ValsLoop
\* is the loop condition, ValsNext the loop body behind its parse_word w
RECURSIVE ValsLoop(_, _, _)
RECURSIVE ValsNext(_, _, _)
ValsLoop(chars, idx, vals) ==
    IF peek(chars, idx) = ")" THEN [ok |-> TRUE, vals |-> vals, idx |-> idx]
    ELSE ValsNext(chars, vals, parse_word(chars, idx, "argument value"))

ValsNext(chars, vals, w) ==
    IF ~w.ok THEN w
    ELSE IF ~eat(chars, w.idx, ",")
    THEN [ok |-> TRUE, vals |-> Append(vals, w.word), idx |-> w.idx]
    ELSE ValsLoop(chars, munch(chars, w.idx + 1), Append(vals, w.word))

\* parse_vals without parentheses: "we parse a single argument as a
\* singleton list"
SingletonVals(w) ==
    IF ~w.ok THEN w ELSE [ok |-> TRUE, vals |-> <<w.word>>, idx |-> w.idx]

\* parse_vals behind its loop, whose outcome is l: the match on peek()
CloseVals(chars, l) ==
    IF ~l.ok THEN l
    ELSE IF peek(chars, l.idx) = ")"
    THEN [ok |-> TRUE, vals |-> l.vals, idx |-> munch(chars, l.idx + 1)]
    ELSE [ok |-> FALSE,
          err |-> IF peek(chars, l.idx) # NoChar
                  THEN ParseError("expected ',' or ')', got '{}'", "",
                                  <<peek(chars, l.idx)>>, 0)
                  ELSE ParseError(
                         "expected ',' or '', but directive line ended",
                         "", <<>>, 0)]

\* parse_vals behind "=" and its white space
ValsAfterEq(chars, idx) ==
    IF ~eat(chars, idx, "(")
    THEN SingletonVals(parse_word(chars, idx, "argument value"))
    ELSE CloseVals(chars, ValsLoop(chars, munch(chars, idx + 1), <<>>))

parse_vals(chars, idx) ==
    IF ~eat(chars, idx, "=")
    THEN [ok |-> TRUE, vals |-> <<>>, idx |-> idx]
    ELSE ValsAfterEq(chars, munch(chars, idx + 1))

\* a parse_arg that drops the values
ArgResultNoVals(n, v) ==
    IF ~v.ok THEN v
    ELSE [ok |-> TRUE, name |-> n.word, vals |-> <<>>, idx |-> v.idx]

\* parse_arg: the pair of the name n and the values v
ArgResult(n, v) ==
    IF ~v.ok THEN v
    ELSE [ok |-> TRUE, name |-> n.word, vals |-> v.vals, idx |-> v.idx]

ArgAfterName(chars, n) ==
    IF ~n.ok THEN n ELSE ArgResult(n, parse_vals(chars, n.idx))

parse_arg(chars, idx) ==
    ArgAfterName(chars, parse_word(chars, idx, "argument name"))

\* HashMap::insert
MapInsert(m, k, v) ==
    [x \in DOMAIN m \cup {k} |-> IF x = k THEN v ELSE m[x]]

EmptyMap == [x \in {} |-> <<>>]

\* the argument loop of parse_directive: ArgsLoop is the loop condition,
\* ArgsNext the loop body behind its parse_arg a
RECURSIVE ArgsLoop(_, _, _)
RECURSIVE ArgsNext(_, _, _)
ArgsLoop(chars, idx, args) ==
    IF at_end(chars, idx) THEN [ok |-> TRUE, args |-> args]
    ELSE ArgsNext(chars, args, parse_arg(chars, idx))

\* a loop body without the contains_key check: the later argument replaces
\* the earlier one
ArgsNextNoCheck(chars, args, a) ==
    IF ~a.ok THEN a
    ELSE ArgsLoop(chars, a.idx, MapInsert(args, a.name, a.vals))

ArgsNext(chars, args, a) ==
    IF ~a.ok THEN a
    ELSE IF a.name \in DOMAIN args
    THEN [ok |-> FALSE,
          err |-> ParseError("duplicate argument: {}", "", a.name, 0)]
    ELSE ArgsLoop(chars, a.idx, MapInsert(args, a.name, a.vals))

\* parse_directive: the pair of the directive d and the arguments l
DirectiveResult(d, l) ==
    IF ~l.ok THEN l
    ELSE [ok |-> TRUE, directive |-> d.word, args |-> l.args]

DirectiveAfterWord(chars, d) ==
    IF ~d.ok THEN d ELSE DirectiveResult(d, ArgsLoop(chars, d.idx, EmptyMap))

parse_directive(chars) ==
    DirectiveAfterWord(chars, parse_word(chars, munch(chars, 0), "directive"))

(***************************************************************************)
(* Stanzas and the scanner, TestFile::parse.  i is the 0-based line index  *)
(* of the source; the line it names is lines[i + 1].                       *)
(***************************************************************************)
Comment(text) == [type |-> "Comment", text |-> text]

Test(directive_line, directive, input, args, expected, line_number) ==
    [type |-> "Test", directive_line |-> directive_line,
     directive |-> directive, input |-> input, args |-> args,
     expected |-> expected, line_number |-> line_number]

\* "Slurp up everything as the input until we hit a ----"
RECURSIVE SlurpInput(_, _, _)
SlurpInput(lines, i, input) ==
    IF i < Len(lines) /\ lines[i + 1] # Dashes
    THEN SlurpInput(lines, i + 1, input \o lines[i + 1] \o <<NL>>)
    ELSE [input |-> input, i |-> i]

UnclosedError(line_number) ==
    ParseError("unclosed double-separator block for test case starting at line {}",
               "", <<>>, line_number)

\* "Then slurp up the expected."
RECURSIVE SlurpExpected(_, _, _, _, _)
SlurpExpected(lines, i, blank_mode, expected, line_number) ==
    IF ~(i < Len(lines))
    THEN [ok |-> TRUE, expected |-> expected, i |-> i]
    ELSE IF blank_mode /\ i + 1 >= Len(lines)
    THEN [ok |-> FALSE, err |-> UnclosedError(line_number)]
    ELSE IF blank_mode /\ lines[i + 1] = Dashes /\ lines[i + 2] = Dashes
    THEN [ok |-> TRUE, expected |-> expected, i |-> i + 2]
    ELSE IF blank_mode /\ lines[i + 1] = Dashes
                       /\ lines[i + 2] = NoNewlineMarker
    THEN [ok |-> TRUE,
          expected |-> IF EndsWithNL(expected)
                       THEN SubSeq(expected, 1, Len(expected) - 1)
                       ELSE expected,
          i |-> i + 2]
    ELSE IF ~blank_mode /\ TrimIsEmpty(lines[i + 1])
    THEN [ok |-> TRUE, expected |-> expected, i |-> i]
    ELSE SlurpExpected(lines, i + 1, blank_mode,
                       expected \o lines[i + 1] \o <<NL>>, line_number)

\* "If there is a second ----, we are in blank-line mode."; i is the index
\* behind the first ----
IsBlankMode(lines, i) == i < Len(lines) /\ lines[i + 1] = Dashes

\* the test case pushed for the directive line at index i, given the parsed
\* directive d, the input block inp and the expected block e
CaseOf(lines, i, d, inp, blank_mode, e) ==
    IF ~d.ok THEN [ok |-> FALSE, err |-> with_line(d.err, i + 1)]
    ELSE IF ~e.ok THEN e
    ELSE [ok |-> TRUE,
          case |-> Test(lines[i + 1], d.directive, inp.input, d.args,
                        e.expected, i + 1),
          blank_mode |-> blank_mode,
          i |-> e.i + 1]

ScanExpected(lines, i, d, inp, blank_mode) ==
    CaseOf(lines, i, d, inp, blank_mode,
           SlurpExpected(lines, IF blank_mode THEN inp.i + 2 ELSE inp.i + 1,
                         blank_mode, <<>>, i + 1))

ScanSeparator(lines, i, d, inp) ==
    ScanExpected(lines, i, d, inp, IsBlankMode(lines, inp.i + 1))

\* one test case, scanned from the directive line at index i
ScanCase(lines, i) ==
    ScanSeparator(lines, i, parse_directive(TakeUntilHash(lines[i + 1])),
                  SlurpInput(lines, i + 1, <<>>))

\* the outer loop of TestFile::parse: ParseLoop is the loop condition and
\* the comment branch, ParseNext what follows the scan c of a test case
RECURSIVE ParseLoop(_, _, _)
RECURSIVE ParseNext(_, _, _)
ParseLoop(lines, i, stanzas) ==
    IF ~(i < Len(lines)) THEN [ok |-> TRUE, stanzas |-> stanzas]
    ELSE IF TrimIsEmpty(TakeUntilHash(lines[i + 1]))
    THEN ParseLoop(lines, i + 1, Append(stanzas, Comment(lines[i + 1])))
    ELSE ParseNext(lines, stanzas, ScanCase(lines, i))

ParseNext(lines, stanzas, c) ==
    IF ~c.ok THEN c
    ELSE ParseLoop(lines, c.i,
                   IF c.i < Len(lines)
                   THEN stanzas \o <<c.case, Comment(<<>>)>>
                   ELSE Append(stanzas, c.case))

parse(f) == ParseLoop(Lines(f), 0, <<>>)

\* the 1-based numbers of the lines the i += 1 behind the push of a test
\* case steps over
RECURSIVE SkippedLoop(_, _, _)
RECURSIVE SkippedNext(_, _, _)
SkippedLoop(lines, i, skipped) ==
    IF ~(i < Len(lines)) THEN skipped
    ELSE IF TrimIsEmpty(TakeUntilHash(lines[i + 1]))
    THEN SkippedLoop(lines, i + 1, skipped)
    ELSE SkippedNext(lines, skipped, ScanCase(lines, i))

SkippedNext(lines, skipped, c) ==
    IF ~c.ok THEN skipped
    ELSE SkippedLoop(lines, c.i,
                     IF c.i - 1 < Len(lines) THEN skipped \cup {c.i}
                     ELSE skipped)

(***************************************************************************)
(* The serializer.                                                         *)
(***************************************************************************)
write_result(w, s) ==
    IF s = <<>> \/ s = <<NL>>
    THEN w \o Dashes \o <<NL>>
    ELSE IF ~EndsWithNL(s)
    THEN w \o Dashes \o <<NL>> \o Dashes \o <<NL>> \o s
           \o <<NL>> \o Dashes \o <<NL>> \o NoNewlineMarker \o <<NL>>
    ELSE IF ContainsBlankLine(s)
    THEN w \o Dashes \o <<NL>> \o Dashes \o <<NL>> \o s
           \o Dashes \o <<NL>> \o Dashes \o <<NL>>
    ELSE w \o Dashes \o <<NL>> \o s

\* a run_rewrite that writes the directive in place of the directive line
EmitStanzaDirective(s, stanza, result) ==
    IF stanza.type = "Test"
    THEN write_result(s \o stanza.directive \o <<NL>> \o stanza.input, result)
    ELSE s \o stanza.text \o <<NL>>

\* a run_rewrite that frames the stored expected text of a test case in place
\* of the result of the evaluation function
EmitStanzaStored(s, stanza, result) ==
    IF stanza.type = "Test"
    THEN write_result(s \o stanza.directive_line \o <<NL>> \o stanza.input,
                      stanza.expected)
    ELSE s \o stanza.text \o <<NL>>

\* what one iteration of the loop of run_rewrite appends to the buffer s for
\* a stanza, given the result of the evaluation function for a test case
EmitStanza(s, stanza, result) ==
    IF stanza.type = "Test"
    THEN write_result(s \o stanza.directive_line \o <<NL>> \o stanza.input,
                      result)
    ELSE s \o stanza.text \o <<NL>>

(***************************************************************************)
(* TestCase: the take operations on the argument map.  Each gives the map  *)
(* it leaves and the Result it returns.                                    *)
(***************************************************************************)
\* DataDrivenError::Argument(message): the message's text and what the
\* format string puts in it
ArgumentError(msg, arg, had, inner) ==
    [kind |-> "Argument", msg |-> msg, arg |-> arg, had |-> had,
     inner |-> inner]

\* DataDrivenError::DidntUseAllArguments(keys)
DidntUseAllArguments(keys) ==
    [kind |-> "DidntUseAllArguments", msg |-> "", arg |-> <<>>,
     had |-> Len(keys), inner |-> None, keys |-> keys]

\* Ok(value): flag is the bool of take_flag, some tells Some from None, val
\* holds the values taken
OkRes(flag, some, val) ==
    [kind |-> "Ok", flag |-> flag, some |-> some, val |-> val, err |-> None]

ErrRes(err) ==
    [kind |-> "Err", flag |-> FALSE, some |-> FALSE, val |-> <<>>,
     err |-> err]

\* a remove that leaves the entry in the map
remove_nothing(m, k) == m

\* HashMap::remove
remove(m, k) == [x \in DOMAIN m \ {k} |-> m[x]]

\* the types T the take operations are called with
Types == {"String", "u32"}

DigitSeq == <<"0", "1", "2", "3", "4", "5", "6", "7", "8", "9">>

RECURSIVE ToNat(_, _)
ToNat(v, acc) ==
    IF v = <<>> THEN acc
    ELSE ToNat(Tail(v),
               10 * acc + (CHOOSE d \in 0..9 : DigitSeq[d + 1] = Head(v)))

\* str::parse::<T>() of a word of the directive grammar, which has no sign;
\* a u32 is parsed from up to 9 digits, which always fit in it
FromStr(v, ty) ==
    IF ty = "String" THEN [ok |-> TRUE, val |-> v]
    ELSE IF v # <<>> /\ Len(v) <= 9 /\ (\A k \in 1..Len(v) : v[k] \in Digits)
    THEN [ok |-> TRUE, val |-> ToNat(v, 0)]
    ELSE [ok |-> FALSE, val |-> v]

\* the first value that does not parse as T, or 0
RECURSIVE FirstUnparsed(_, _, _)
FirstUnparsed(vals, ty, k) ==
    IF k > Len(vals) THEN 0
    ELSE IF ~FromStr(vals[k], ty).ok THEN k
    ELSE FirstUnparsed(vals, ty, k + 1)

ParsedVals(vals, ty) == [k \in 1..Len(vals) |-> FromStr(vals[k], ty).val]

\* a take_flag that removes the entry only when it returns Ok
take_flag_keep(m, arg) ==
    IF arg \in DOMAIN m /\ m[arg] # <<>>
    THEN [args |-> m,
          res |-> ErrRes(ArgumentError(
                    "must be no arguments to take_flag, {} had {}",
                    arg, Len(m[arg]), None))]
    ELSE [args |-> remove(m, arg),
          res |-> OkRes(arg \in DOMAIN m, FALSE, <<>>)]

take_flag(m, arg) ==
    [args |-> remove(m, arg),
     res |-> IF arg \in DOMAIN m
             THEN IF m[arg] # <<>>
                  THEN ErrRes(ArgumentError(
                         "must be no arguments to take_flag, {} had {}",
                         arg, Len(m[arg]), None))
                  ELSE OkRes(TRUE, FALSE, <<>>)
             ELSE OkRes(FALSE, FALSE, <<>>)]

try_take_arg(m, arg, ty) ==
    [args |-> remove(m, arg),
     res |-> IF arg \in DOMAIN m
             THEN IF Len(m[arg]) = 0
                  THEN OkRes(FALSE, FALSE, <<>>)
                  ELSE IF Len(m[arg]) = 1
                  THEN IF FromStr(m[arg][1], ty).ok
                       THEN OkRes(FALSE, TRUE, <<FromStr(m[arg][1], ty).val>>)
                       ELSE ErrRes(ArgumentError("couldn't parse: {}",
                                                 m[arg][1], 1, None))
                  ELSE ErrRes(ArgumentError(
                         "must be exactly one argument to take_arg, {} had {}",
                         arg, Len(m[arg]), None))
             ELSE OkRes(FALSE, FALSE, <<>>)]

\* take_arg behind its call r of try_take_arg
TakeArgOf(r, arg) ==
    IF r.res.kind = "Ok" /\ ~r.res.some
    THEN [r EXCEPT !.res = ErrRes(ArgumentError("no argument named {}",
                                                arg, 0, None))]
    ELSE r

take_arg(m, arg, ty) == TakeArgOf(try_take_arg(m, arg, ty), arg)

\* try_take_args behind its remove, where u is the first value that does not
\* parse
TryTakeArgsOf(m, arg, ty, u) ==
    IF u = 0
    THEN OkRes(FALSE, TRUE, ParsedVals(m[arg], ty))
    ELSE ErrRes(ParseError("couldn't parse: {}", "", m[arg][u], 0))

try_take_args(m, arg, ty) ==
    [args |-> remove(m, arg),
     res |-> IF arg \in DOMAIN m
             THEN TryTakeArgsOf(m, arg, ty, FirstUnparsed(m[arg], ty, 1))
             ELSE OkRes(FALSE, FALSE, <<>>)]

\* take_args behind its call r of try_take_args
TakeArgsOf(r, arg) ==
    IF r.res.kind = "Err"
    THEN [r EXCEPT !.res = ErrRes(ArgumentError("couldn't parse: {}", arg, 0,
                                                r.res.err))]
    ELSE IF ~r.res.some
    THEN [r EXCEPT !.res = ErrRes(ArgumentError("no argument named {}",
                                                arg, 0, None))]
    ELSE r

take_args(m, arg, ty) == TakeArgsOf(try_take_args(m, arg, ty), arg)

\* the orders HashMap::keys() can give the keys in
KeyOrders(m) ==
    {q \in [1..Cardinality(DOMAIN m) -> DOMAIN m] :
        \A i, j \in 1..Cardinality(DOMAIN m) : q[i] = q[j] => i = j}

\* an expect_empty that never fails
expect_empty_lax(m) == {OkRes(FALSE, FALSE, <<>>)}

\* expect_empty: the results it can return
expect_empty(m) ==
    IF DOMAIN m = {}
    THEN {OkRes(FALSE, FALSE, <<>>)}
    ELSE {ErrRes(DidntUseAllArguments(q)) : q \in KeyOrders(m)}

(***************************************************************************)
(* State.                                                                  *)
(***************************************************************************)
VARIABLES
    disk,         \* the file system: file name -> file text
    env_rewrite,  \* whether the REWRITE environment variable is set
    files,        \* the files walk visits, in order (test_files / file_list)
    excluded,     \* the file names exclusion_matcher answers true for
    det,          \* whether the evaluation function is deterministic
    pc,           \* where the program stands
    fi,           \* walk: index in files of the next file
    tf,           \* the TestFile of the file being run
    si,           \* run: index in tf.stanzas of the next stanza
    s,            \* run_rewrite: the text built so far
    failures,     \* walk: the failures pushed so far
    panic,        \* the panic that ended the program, or None
    visited,      \* history: the files handed to the callback, in order
    evlog,        \* history: the calls of the evaluation function, in order
    memo,         \* the graph of a deterministic evaluation function so far
    pass,         \* which walk over the directory this is (1 or 2)
    disk0,        \* history: the file system when the present walk began
    src,          \* scanner: what the text under scan was made from
    text,         \* scanner: the file text under scan
    scan,         \* scanner: the result of TestFile::parse(text)
    out,          \* scanner: the stanzas of scan, serialized again
    writes,       \* history: the calls of fs::write, in order
    args,         \* the argument map of the test case under the take operations
    ret,          \* the value the last take operation, or the walk, returned
    tlog,         \* history: the take operations on the test case, in order
    alog          \* history: the futures of run_normal_async, started and done

vars == <<disk, env_rewrite, files, excluded, det, pc, fi, tf, si, s,
          failures, panic, visited, evlog, memo, pass, disk0,
          src, text, scan, out, writes, args, ret, tlog, alog>>

envVars == <<env_rewrite, files, excluded, det>>
scanVars == <<src, text, scan, out>>
caseVars == <<args, ret, tlog, alog>>

(***************************************************************************)
(* Texts the specifications start from.                                    *)
(***************************************************************************)
\* the text whose lines are ls, each ended by a line feed
RECURSIVE JoinLines(_)
JoinLines(ls) ==
    IF ls = <<>> THEN <<>> ELSE Head(ls) \o <<NL>> \o JoinLines(Tail(ls))

\* all sequences over S of length at most n
SeqsUpTo(S, n) == UNION {[1..k -> S] : k \in 0..n}

Foo == <<"f", "o", "o">>
Bar == <<"b", "a", "r", " ", "n", "=", "1", " ", "#", "c">>
HashC == <<"#", " ", "c">>
OhNo == <<"o", "h", " ", "n", "o", "!">>

\* the lines a file of the scanner specification is made of: an empty line,
\* a white-space line, a word (a directive line or a line of a block), the
\* two separator lines and a comment line
ScanLines == {<<>>, <<" ">>, <<"a">>, Dashes, NoNewlineMarker, <<"#", "c">>}

RawTexts == {JoinLines(ls) : ls \in SeqsUpTo(ScanLines, MaxLines)}

\* the lines that may follow a closed double-separator block
MaxTail == 2

\* texts of a test case with a closed double-separator block, followed by up
\* to MaxTail lines
BlockTexts ==
    {JoinLines(<<<<"a">>, Dashes, Dashes>> \o body \o <<Dashes, close>>
               \o rest) :
        body \in SeqsUpTo({<<>>, <<"a">>}, 1),
        close \in {Dashes, NoNewlineMarker},
        rest \in SeqsUpTo(ScanLines, MaxTail)}

\* the characters an evaluation result of the scanner specification holds
ResultChars == {"a", NL, " ", "-"}

\* the lines an evaluation result is made of: an empty line, a word and the
\* two separator lines
ResultLines == {<<>>, <<"a">>, Dashes, NoNewlineMarker}

\* the text without its last character
DropLast(t) == SubSeq(t, 1, Len(t) - 1)

\* results of up to MaxLines lines, with and without the final line feed
LineResults ==
    {JoinLines(ls) : ls \in SeqsUpTo(ResultLines, MaxLines)}
        \cup {DropLast(JoinLines(ls)) :
                 ls \in SeqsUpTo(ResultLines, MaxLines) \ {<<>>}}

CaseSources ==
    {[kind |-> "case", directive_line |-> dl, input |-> inp, result |-> r] :
        dl \in {Foo, Bar}, inp \in {<<>>, <<"x", NL>>},
        r \in SeqsUpTo(ResultChars, MaxResLen) \cup LineResults}

RawSource == [kind |-> "raw", directive_line |-> <<>>, input |-> <<>>,
              result |-> <<>>]

\* the test cases a file of the run specification is made of: directive
\* line, input lines, expected lines
RunCases == {<<Foo, <<"x">>, <<"a">>>>, <<Bar, <<>>, <<"b">>>>}

RECURSIVE FileOfCases(_)
FileOfCases(cs) ==
    IF cs = <<>> THEN <<>>
    ELSE JoinLines(<<Head(cs)[1]>> \o (IF Head(cs)[2] = <<>> THEN <<>>
                                       ELSE <<Head(cs)[2]>>)
                   \o <<Dashes, Head(cs)[3], <<>>>>)
         \o FileOfCases(Tail(cs))

\* a comment line, then up to MaxCases test cases, a blank line after each
RunFiles ==
    {JoinLines(<<HashC>>) \o FileOfCases(cs) : cs \in SeqsUpTo(RunCases, MaxCases)}

\* a file whose second line is no directive line
BadFile == JoinLines(<<HashC, <<"(">>, Dashes, <<"a">>>>)

\* the files of the walk specification: no test case, one test case, and a
\* file that does not parse
WalkFiles == {<<>>, JoinLines(<<Foo, <<"x">>, Dashes, <<"a">>>>), BadFile}

FileNames == <<"f1", "f2", "f3", "f4">>

\* the results the evaluation function returns
Results == {<<"a", NL>>, <<"b", NL>>, <<NL, "a", NL>>}

Outcomes ==
    {[kind |-> "Ok", val |-> r] : r \in Results}
        \cup {[kind |-> "Err", val |-> OhNo]}

(***************************************************************************)
(* Directive lines, written from a directive and a list of arguments.  An  *)
(* argument is written in one of the forms of the grammar: name ("flag"),  *)
(* name=v ("single"), name=(v1,...,vn) ("list"), and a list with a comma   *)
(* before its closing parenthesis ("comma").                               *)
(***************************************************************************)
ArgNames == {<<"x">>, <<"y", "2">>}

ValLists == {<<>>, <<<<"1">>>>, <<<<"1">>, <<"a", "b">>>>}

ArgSources ==
    {[name |-> n, form |-> "flag", vals |-> <<>>] : n \in ArgNames}
        \cup {[name |-> n, form |-> "single", vals |-> <<<<"a", "b">>>>] :
                 n \in ArgNames}
        \cup {[name |-> n, form |-> "list", vals |-> l] :
                 n \in ArgNames, l \in ValLists}
        \cup {[name |-> n, form |-> "comma", vals |-> l] :
                 n \in ArgNames, l \in {<<>>, <<<<"1">>>>}}

\* a directive line is written with or without white space around its
\* punctuation
DirSources ==
    {[kind |-> "dir", directive |-> Foo, arglist |-> l, spaced |-> sp] :
        l \in SeqsUpTo(ArgSources, MaxArgs), sp \in BOOLEAN}

\* the values of a list, a comma between each two
RECURSIVE JoinVals(_, _)
JoinVals(vals, sp) ==
    IF vals = <<>> THEN <<>>
    ELSE IF Len(vals) = 1 THEN Head(vals)
    ELSE Head(vals) \o sp \o <<",">> \o sp \o JoinVals(Tail(vals), sp)

RenderArg(a, sp) ==
    IF a.form = "flag" THEN a.name
    ELSE IF a.form = "single"
    THEN a.name \o sp \o <<"=">> \o sp \o a.vals[1]
    ELSE a.name \o sp \o <<"=">> \o sp \o <<"(">> \o sp
           \o JoinVals(a.vals, sp)
           \o (IF a.form = "comma" THEN sp \o <<",">> ELSE <<>>)
           \o sp \o <<")">>

RECURSIVE RenderArgs(_, _)
RenderArgs(arglist, sp) ==
    IF arglist = <<>> THEN <<>>
    ELSE <<" ">> \o RenderArg(Head(arglist), sp)
           \o RenderArgs(Tail(arglist), sp)

RenderLine(d) ==
    (IF d.spaced THEN <<" ">> ELSE <<>>) \o d.directive
        \o RenderArgs(d.arglist, IF d.spaced THEN <<" ">> ELSE <<>>)
        \o (IF d.spaced THEN <<" ">> ELSE <<>>)

(***************************************************************************)
(* TestFile::new, the failure messages and the evaluation function.        *)
(***************************************************************************)
NoFile == [stanzas |-> <<>>, filename |-> "", failure |-> None]

NotScanned == [ok |-> FALSE, err |-> None]

\* TestFile::new behind its parse, whose outcome is p
NewResult(p, filename) ==
    IF p.ok
    THEN [ok |-> TRUE,
          tf |-> [stanzas |-> p.stanzas, filename |-> filename,
                  failure |-> None]]
    ELSE [ok |-> FALSE, err |-> with_filename(p.err, filename)]

TestFileNew(filename) == NewResult(parse(disk[filename]), filename)

exclusion_matcher(file) == file.filename \in excluded

\* the two format! calls of run_normal: the format string and its arguments
MismatchFailure(filename, case, result) ==
    [fmt |-> "failure:\n{}:{}:\n{}\nexpected:\n{}\nactual:\n{}",
     filename |-> filename, line |-> case.line_number, input |-> case.input,
     expected |-> case.expected, actual |-> result]

ErrorFailure(filename, case, err) ==
    [fmt |-> "failure:\n{}:{}:\n{}\n{}",
     filename |-> filename, line |-> case.line_number, input |-> case.input,
     expected |-> <<>>, actual |-> err]

\* what the evaluation function can depend on: the public fields of TestCase
EvalKey(case) ==
    [directive |-> case.directive, args |-> case.args, input |-> case.input]

EvalOutcomes(case) ==
    IF det /\ EvalKey(case) \in DOMAIN memo
    THEN {memo[EvalKey(case)]}
    ELSE Outcomes

Remember(case, o) == IF det THEN MapInsert(memo, EvalKey(case), o) ELSE memo

\* the stanzas after the evaluation function, which holds the k-th as
\* &mut TestCase, has taken the arguments in taken from its argument map
AfterTakes(stanzas, k, taken) ==
    [stanzas EXCEPT ![k].args = [n \in DOMAIN @ \ taken |-> @[n]]]

LogEntry(stanza, o) ==
    [file |-> tf.filename, stanza |-> si, line |-> stanza.line_number,
     outcome |-> o]

(***************************************************************************)
(* run_normal: one iteration of its loop over the stanzas.                 *)
(***************************************************************************)
\* the failure slot after the match on result.result()
FailureAfter(failure, filename, case, o) ==
    IF o.kind = "Ok"
    THEN IF o.val # case.expected
         THEN MismatchFailure(filename, case, o.val)
         ELSE failure
    ELSE ErrorFailure(filename, case, o.val)

\* a run_normal without the break of the mismatch branch
BreaksNever(case, o) == FALSE

\* whether the iteration ends in break
Breaks(case, o) == o.kind = "Ok" /\ o.val # case.expected

RunNormalStep ==
    /\ pc = "run"
    /\ ~env_rewrite
    /\ LET stanza == tf.stanzas[si]
       IN  IF stanza.type = "Test"
           THEN \E o \in EvalOutcomes(stanza),
                   taken \in SUBSET DOMAIN stanza.args :
                   /\ evlog' = Append(evlog, LogEntry(stanza, o))
                   /\ memo' = Remember(stanza, o)
                   /\ tf' = [tf EXCEPT
                                !.failure =
                                    FailureAfter(@, tf.filename, stanza, o),
                                !.stanzas = AfterTakes(@, si, taken)]
                   /\ IF Breaks(stanza, o) \/ si = Len(tf.stanzas)
                      THEN pc' = "ran" /\ si' = si
                      ELSE pc' = "run" /\ si' = si + 1
           ELSE /\ IF si = Len(tf.stanzas)
                   THEN pc' = "ran" /\ si' = si
                   ELSE pc' = "run" /\ si' = si + 1
                /\ UNCHANGED <<evlog, memo, tf>>
    /\ UNCHANGED <<disk, envVars, fi, s, failures, panic, visited, pass,
                   disk0, scanVars, writes, caseVars>>

(***************************************************************************)
(* run_rewrite: one iteration of its loop, and after the last one the      *)
(* write of the file.                                                      *)
(***************************************************************************)
UnwrapPanic(err) == [kind |-> "unwrap", err |-> err, msg |-> <<>>]

\* a call of fs::write: the file, the walk it was made in and the number of
\* calls of the evaluation function made before it
WriteEntry(filename, evals) ==
    [file |-> filename, pass |-> pass, evals |-> evals]

\* a run_rewrite that writes the file in every iteration of its loop
WritesAlways(last) == TRUE

\* whether fs::write is called now: behind the last iteration of the loop
WritesFile(last) == last

RunRewriteStep ==
    /\ pc = "run"
    /\ env_rewrite
    /\ LET stanza == tf.stanzas[si]
           last == si = Len(tf.stanzas)
           emit(text_, o) ==
               /\ s' = text_
               /\ IF o.kind = "Err"
                  THEN /\ pc' = "panicked"
                       /\ panic' = UnwrapPanic(o)
                       /\ UNCHANGED <<disk, si, writes>>
                  ELSE /\ panic' = panic
                       /\ IF WritesFile(last)
                          THEN /\ disk' = [disk EXCEPT ![tf.filename] = text_]
                               /\ writes' = Append(writes,
                                      WriteEntry(tf.filename,
                                          IF stanza.type = "Test"
                                          THEN Len(evlog) + 1
                                          ELSE Len(evlog)))
                          ELSE UNCHANGED <<disk, writes>>
                       /\ IF last
                          THEN pc' = "ran" /\ si' = si
                          ELSE pc' = "run" /\ si' = si + 1
       IN  IF stanza.type = "Test"
           THEN \E o \in EvalOutcomes(stanza),
                   taken \in SUBSET DOMAIN stanza.args :
                   /\ evlog' = Append(evlog, LogEntry(stanza, o))
                   /\ memo' = Remember(stanza, o)
                   /\ tf' = [tf EXCEPT !.stanzas = AfterTakes(@, si, taken)]
                   /\ emit(IF o.kind = "Err" THEN s
                           ELSE EmitStanza(s, stanza, o.val), o)
           ELSE /\ emit(EmitStanza(s, stanza, <<>>), [kind |-> "Ok", val |-> <<>>])
                /\ UNCHANGED <<evlog, memo, tf>>
    /\ UNCHANGED <<envVars, fi, failures, visited, pass, disk0,
                   scanVars, caseVars>>

(***************************************************************************)
(* walk_exclusive.                                                         *)
(***************************************************************************)
\* the closure run up to the first stanza of the file: TestFile::new and its
\* unwrap, the exclusion matcher, the call of the callback f, which calls
\* TestFile::run
WalkOpen ==
    /\ pc = "walk"
    /\ fi <= Len(files)
    /\ \E r \in {TestFileNew(files[fi])} :
           IF ~r.ok
           THEN /\ pc' = "panicked"
                /\ panic' = UnwrapPanic(r.err)
                /\ UNCHANGED <<disk, fi, tf, si, s, visited, writes>>
           ELSE IF exclusion_matcher(r.tf)
           THEN /\ fi' = fi + 1
                /\ UNCHANGED <<disk, pc, panic, tf, si, s, visited, writes>>
           ELSE /\ tf' = r.tf
                /\ si' = 1
                /\ s' = <<>>
                /\ visited' = Append(visited, files[fi])
                /\ pc' = IF r.tf.stanzas = <<>> THEN "ran" ELSE "run"
                /\ disk' = IF r.tf.stanzas = <<>> /\ env_rewrite
                           THEN [disk EXCEPT ![files[fi]] = <<>>]
                           ELSE disk
                /\ writes' = IF r.tf.stanzas = <<>> /\ env_rewrite
                             THEN Append(writes, WriteEntry(files[fi], Len(evlog)))
                             ELSE writes
                /\ UNCHANGED <<fi, panic>>
    /\ UNCHANGED <<envVars, failures, evlog, memo, pass, disk0, scanVars,
                   caseVars>>

\* the callback has returned: the failure of the file is pushed
WalkCollect ==
    /\ pc = "ran"
    /\ failures' = IF tf.failure # None THEN Append(failures, tf.failure)
                   ELSE failures
    /\ fi' = fi + 1
    /\ pc' = "walk"
    /\ UNCHANGED <<disk, envVars, tf, si, s, panic, visited, evlog, memo,
                   pass, disk0, scanVars, writes, caseVars>>

\* the unit value (), which a function without a return type returns
Unit == [kind |-> "unit"]

\* after the last file: panic with the failures, each followed by "\n", or
\* the return of the function, which has no return type
WalkFinish ==
    /\ pc = "walk"
    /\ fi > Len(files)
    /\ IF failures # <<>>
       THEN /\ pc' = "panicked"
            /\ panic' = [kind |-> "failures", err |-> None, msg |-> failures]
            /\ ret' = ret
       ELSE /\ pc' = "done"
            /\ panic' = panic
            /\ ret' = Unit
    /\ UNCHANGED <<disk, envVars, fi, tf, si, s, failures, visited, evlog,
                   memo, pass, disk0, scanVars, writes, args, tlog, alog>>

\* the test is run a second time, over the files as the first run left them
Rerun ==
    /\ pc = "done"
    /\ pass = 1
    /\ pass' = 2
    /\ disk0' = disk
    /\ fi' = 1
    /\ pc' = "walk"
    /\ UNCHANGED <<disk, envVars, tf, si, s, failures, panic, visited, evlog,
                   memo, scanVars, writes, caseVars>>

(***************************************************************************)
(* The scanner and the serializer on their own.                            *)
(***************************************************************************)
\* run_rewrite's serialization of a test case whose result is src.result
SerializeCase ==
    /\ pc = "case"
    /\ text' = EmitStanza(<<>>, Test(src.directive_line, <<>>, src.input,
                                     EmptyMap, <<>>, 1), src.result)
    /\ pc' = "text"
    /\ UNCHANGED <<src, scan, out, disk, envVars, fi, tf, si, s, failures,
                   panic, visited, evlog, memo, pass, disk0, writes,
                   caseVars>>

ScanText ==
    /\ pc = "text"
    /\ scan' = parse(text)
    /\ pc' = "scanned"
    /\ UNCHANGED <<src, text, out, disk, envVars, fi, tf, si, s, failures,
                   panic, visited, evlog, memo, pass, disk0, writes,
                   caseVars>>

\* the loop of run_rewrite with the stored expected text of each test case
\* as its result
RECURSIVE Reproduced(_, _)
Reproduced(buf, stanzas) ==
    IF stanzas = <<>> THEN buf
    ELSE Reproduced(EmitStanza(buf, Head(stanzas),
                               IF Head(stanzas).type = "Test"
                               THEN Head(stanzas).expected ELSE <<>>),
                    Tail(stanzas))

Reproduce ==
    /\ pc = "scanned"
    /\ scan.ok
    /\ out' = Reproduced(<<>>, scan.stanzas)
    /\ pc' = "reproduced"
    /\ UNCHANGED <<src, text, scan, disk, envVars, fi, tf, si, s, failures,
                   panic, visited, evlog, memo, pass, disk0, writes,
                   caseVars>>

(***************************************************************************)
(* DirectiveParser::new(line).parse_directive() on its own.                *)
(***************************************************************************)
ParseDirective ==
    /\ pc = "dir"
    /\ scan' = parse_directive(text)
    /\ pc' = "parsed"
    /\ UNCHANGED <<src, text, out, disk, envVars, fi, tf, si, s, failures,
                   panic, visited, evlog, memo, pass, disk0, writes,
                   caseVars>>

(***************************************************************************)
(* run_normal_async: the loop over the drained stanzas.  The future of f   *)
(* for a test case is started, and the loop goes on when it is done.       *)
(***************************************************************************)
AsyncEntry(ev, case, result) ==
    [ev |-> ev, stanza |-> si, line |-> case.line_number,
     expected |-> case.expected, result |-> result]

\* the loop behind the stanza at si: the next iteration, or the end of the
\* loop, where the drain leaves self.stanzas empty
AsyncAdvance(ends) ==
    IF ends \/ si = Len(tf.stanzas)
    THEN [pc |-> "aran", si |-> si, stanzas |-> <<>>]
    ELSE [pc |-> "arun", si |-> si + 1, stanzas |-> tf.stanzas]

\* a run_normal_async without the break of the mismatch branch
BreaksAsyncNever(case, result) == FALSE

\* whether the iteration ends in break
BreaksAsync(case, result) == result # case.expected

\* the head of an iteration: f(case) for a test case, nothing for a comment
AsyncStart ==
    /\ pc = "arun"
    /\ IF tf.stanzas[si].type = "Test"
       THEN /\ alog' = Append(alog, AsyncEntry("start", tf.stanzas[si], <<>>))
            /\ pc' = "await"
            /\ UNCHANGED <<si, tf>>
       ELSE /\ \E a \in {AsyncAdvance(FALSE)} :
                  /\ pc' = a.pc
                  /\ si' = a.si
                  /\ tf' = [tf EXCEPT !.stanzas = a.stanzas]
            /\ alog' = alog
    /\ UNCHANGED <<disk, envVars, fi, s, failures, panic, visited, evlog,
                   memo, pass, disk0, scanVars, writes, args, ret, tlog>>

\* the future is done: the comparison of its result with the expected text
AsyncDone ==
    /\ pc = "await"
    /\ \E result \in Results :
          /\ alog' = Append(alog, AsyncEntry("done", tf.stanzas[si], result))
          /\ \E a \in {AsyncAdvance(BreaksAsync(tf.stanzas[si], result))} :
                /\ pc' = a.pc
                /\ si' = a.si
                /\ tf' = [tf EXCEPT
                            !.stanzas = a.stanzas,
                            !.failure =
                                IF result # tf.stanzas[si].expected
                                THEN MismatchFailure(tf.filename,
                                                     tf.stanzas[si], result)
                                ELSE @]
    /\ UNCHANGED <<disk, envVars, fi, s, failures, panic, visited, evlog,
                   memo, pass, disk0, scanVars, writes, args, ret, tlog>>

(***************************************************************************)
(* The take operations of the evaluation function on one test case.        *)
(***************************************************************************)
\* the argument maps of the test case: each name absent or with a list
TakeLists ==
    {<<>>, <<<<"1">>>>, <<<<"a", "b">>>>, <<<<"1">>, <<"2">>>>,
     <<<<"1">>, <<"a", "b">>>>}

CaseArgMaps ==
    UNION {[D -> TakeLists] : D \in SUBSET ArgNames}

TakeEntry(op, arg, ty, before, after, res) ==
    [op |-> op, arg |-> arg, ty |-> ty, before |-> before, after |-> after,
     res |-> res]

\* a take operation has returned r
Taken(op, arg, ty, r) ==
    /\ args' = r.args
    /\ ret' = TakeEntry(op, arg, ty, args, r.args, r.res)
    /\ tlog' = Append(tlog, TakeEntry(op, arg, ty, args, r.args, r.res))
    /\ UNCHANGED <<disk, envVars, pc, fi, tf, si, s, failures, panic,
                   visited, evlog, memo, pass, disk0, scanVars, writes, alog>>

TakeFlag ==
    /\ pc = "args"
    /\ Len(tlog) < MaxTakes
    /\ \E arg \in ArgNames :
          Taken("take_flag", arg, "", take_flag(args, arg))

TakeArg ==
    /\ pc = "args"
    /\ Len(tlog) < MaxTakes
    /\ \E arg \in ArgNames, ty \in Types :
          Taken("take_arg", arg, ty, take_arg(args, arg, ty))

TryTakeArg ==
    /\ pc = "args"
    /\ Len(tlog) < MaxTakes
    /\ \E arg \in ArgNames, ty \in Types :
          Taken("try_take_arg", arg, ty, try_take_arg(args, arg, ty))

TakeArgs ==
    /\ pc = "args"
    /\ Len(tlog) < MaxTakes
    /\ \E arg \in ArgNames, ty \in Types :
          Taken("take_args", arg, ty, take_args(args, arg, ty))

TryTakeArgs ==
    /\ pc = "args"
    /\ Len(tlog) < MaxTakes
    /\ \E arg \in ArgNames, ty \in Types :
          Taken("try_take_args", arg, ty, try_take_args(args, arg, ty))

ExpectEmpty ==
    /\ pc = "args"
    /\ \E r \in expect_empty(args) :
          ret' = TakeEntry("expect_empty", <<>>, "", args, args, r)
    /\ UNCHANGED <<args, tlog, disk, envVars, pc, fi, tf, si, s, failures,
                   panic, visited, evlog, memo, pass, disk0, scanVars,
                   writes, alog>>

(***************************************************************************)
(* Specifications.                                                         *)
(***************************************************************************)
\* no test case is under the take operations, no future was started
CaseInit ==
    /\ args = EmptyMap
    /\ ret = None
    /\ tlog = <<>>
    /\ alog = <<>>

HarnessInit ==
    /\ pc = "walk"
    /\ fi = 1
    /\ tf = NoFile
    /\ si = 1
    /\ s = <<>>
    /\ failures = <<>>
    /\ panic = None
    /\ visited = <<>>
    /\ evlog = <<>>
    /\ memo = EmptyMap
    /\ pass = 1
    /\ disk0 = disk
    /\ src = RawSource
    /\ text = <<>>
    /\ scan = NotScanned
    /\ out = <<>>
    /\ writes = <<>>
    /\ CaseInit

\* walk over a directory of up to MaxFiles files
Init ==
    /\ \E n \in 1..MaxFiles :
          /\ files = SubSeq(FileNames, 1, n)
          /\ disk \in [{FileNames[k] : k \in 1..n} -> WalkFiles]
    /\ env_rewrite \in BOOLEAN
    /\ excluded \in {{}, {FileNames[1]}}
    /\ det = FALSE
    /\ HarnessInit

Next == WalkOpen \/ RunNormalStep \/ RunRewriteStep \/ WalkCollect \/ WalkFinish

Spec == Init /\ [][Next]_vars

\* the run of one file of up to MaxCases test cases
InitRun ==
    /\ files = <<FileNames[1]>>
    /\ disk \in [{FileNames[1]} -> RunFiles]
    /\ env_rewrite \in BOOLEAN
    /\ excluded = {}
    /\ det = FALSE
    /\ HarnessInit

SpecRun == InitRun /\ [][Next]_vars

\* two rewriting runs of one file with a deterministic evaluation function
InitIdem ==
    /\ files = <<FileNames[1]>>
    /\ disk \in [{FileNames[1]} -> RunFiles \cup {BadFile}]
    /\ env_rewrite = TRUE
    /\ excluded = {}
    /\ det = TRUE
    /\ HarnessInit

NextIdem == WalkOpen \/ RunRewriteStep \/ WalkCollect \/ WalkFinish \/ Rerun

SpecIdem == InitIdem /\ [][NextIdem]_vars

\* the scanner on a text of up to MaxLines lines, and on the serialization of
\* a test case with a result of up to MaxResLen characters
InitScan ==
    /\ \/ src = RawSource /\ text \in RawTexts \cup BlockTexts /\ pc = "text"
       \/ src \in CaseSources /\ text = <<>> /\ pc = "case"
    /\ scan = NotScanned
    /\ out = <<>>
    /\ disk = EmptyMap
    /\ env_rewrite = FALSE
    /\ files = <<>>
    /\ excluded = {}
    /\ det = FALSE
    /\ fi = 1
    /\ tf = NoFile
    /\ si = 1
    /\ s = <<>>
    /\ failures = <<>>
    /\ panic = None
    /\ visited = <<>>
    /\ evlog = <<>>
    /\ memo = EmptyMap
    /\ pass = 1
    /\ disk0 = EmptyMap
    /\ writes = <<>>
    /\ CaseInit

\* no file is walked, run or scanned
IdleInit ==
    /\ disk = EmptyMap
    /\ env_rewrite = FALSE
    /\ files = <<>>
    /\ excluded = {}
    /\ det = FALSE
    /\ fi = 1
    /\ tf = NoFile
    /\ si = 1
    /\ s = <<>>
    /\ failures = <<>>
    /\ panic = None
    /\ visited = <<>>
    /\ evlog = <<>>
    /\ memo = EmptyMap
    /\ pass = 1
    /\ disk0 = EmptyMap
    /\ writes = <<>>

\* the directive parser on a directive line of up to MaxArgs arguments
InitDir ==
    /\ src \in DirSources
    /\ text = RenderLine(src)
    /\ pc = "dir"
    /\ scan = NotScanned
    /\ out = <<>>
    /\ IdleInit
    /\ CaseInit

NextDir == ParseDirective

SpecDir == InitDir /\ [][NextDir]_vars

\* up to MaxTakes take operations on a test case, and expect_empty
InitArgs ==
    /\ args \in CaseArgMaps
    /\ ret = None
    /\ tlog = <<>>
    /\ alog = <<>>
    /\ pc = "args"
    /\ src = RawSource
    /\ text = <<>>
    /\ scan = NotScanned
    /\ out = <<>>
    /\ IdleInit

NextArgs ==
    TakeFlag \/ TakeArg \/ TryTakeArg \/ TakeArgs \/ TryTakeArgs
        \/ ExpectEmpty

SpecArgs == InitArgs /\ [][NextArgs]_vars

\* run_async in a normal pass over one file of up to MaxCases test cases
InitAsync ==
    /\ files = <<FileNames[1]>>
    /\ disk \in [{FileNames[1]} -> RunFiles]
    /\ env_rewrite = FALSE
    /\ excluded = {}
    /\ det = FALSE
    /\ tf = TestFileNew(FileNames[1]).tf
    /\ pc = "arun"
    /\ fi = 1
    /\ si = 1
    /\ s = <<>>
    /\ failures = <<>>
    /\ panic = None
    /\ visited = <<FileNames[1]>>
    /\ evlog = <<>>
    /\ memo = EmptyMap
    /\ pass = 1
    /\ disk0 = disk
    /\ src = RawSource
    /\ text = <<>>
    /\ scan = NotScanned
    /\ out = <<>>
    /\ writes = <<>>
    /\ CaseInit

NextAsync == AsyncStart \/ AsyncDone

SpecAsync == InitAsync /\ [][NextAsync]_vars

NextScan == SerializeCase \/ ScanText \/ Reproduce

SpecScan == InitScan /\ [][NextScan]_vars

(***************************************************************************)
(* TestFile::parse and the DirectiveParser it calls, one step for each     *)
(* iteration of a loop.  scan holds the line index i of the scanner, the   *)
(* index idx of the directive parser, and for each loop the index its      *)
(* latest iteration started from, -1 when the loop is entered.             *)
(***************************************************************************)
\* the arguments of a directive line of the loop specification
MaxLoopArgs == 2

\* an input line, a separator, two expected lines, a blank line, a comment
LoopTail == <<<<"a">>, Dashes, <<"a">>, <<"a">>, <<>>, <<"#", "c">>>>

\* the lines of the short files of the loop specification
LoopLines == {<<>>, <<"a">>, Dashes, NoNewlineMarker}

\* its arguments: a flag, a single value, a list of two values, a list with a
\* trailing comma
LoopArgSources ==
    {a \in ArgSources :
        \/ a.form = "flag"
        \/ a.form = "single" /\ a.name = <<"x">>
        \/ a.form = "list" /\ Len(a.vals) = 2
        \/ a.form = "comma" /\ Len(a.vals) = 1}

LoopDirective(l, sp) ==
    RenderLine([kind |-> "dir", directive |-> Foo, arglist |-> l,
                spaced |-> sp])

\* the files of the loop specification: short files, files with a closed
\* double-separator block, and files of a directive line with arguments,
\* alone or with the lines of LoopTail behind it
LoopTexts ==
    {JoinLines(ls) : ls \in SeqsUpTo(LoopLines, MaxLines)}
        \cup BlockTexts
        \cup {JoinLines(<<LoopDirective(l, sp)>>) :
                 l \in SeqsUpTo(LoopArgSources, MaxLoopArgs),
                 sp \in BOOLEAN}
        \cup {JoinLines(<<LoopDirective(l, FALSE)>> \o LoopTail) :
                 l \in SeqsUpTo(LoopArgSources, MaxLoopArgs)}

\* let lines = f.lines().collect(), let mut i = 0, at the head of the outer
\* loop
LoopStart(f) ==
    [lines |-> Lines(f), i |-> 0, idx |-> 0, chars |-> <<>>, blank_mode |-> FALSE,
     names |-> {}, name |-> <<>>, ok |-> TRUE,
     outer |-> -1, arg |-> -1, val |-> -1, input |-> -1, expected |-> -1]

Stepped(p, sc) ==
    /\ pc' = p
    /\ scan' = sc
    /\ UNCHANGED <<src, text, out, disk, envVars, fi, tf, si, s, failures,
                   panic, visited, evlog, memo, pass, disk0, writes,
                   caseVars>>

\* parse is called with the text f of a file
StepCall ==
    /\ pc = "l_call"
    /\ \E f \in LoopTexts : text' = f /\ scan' = LoopStart(f)
    /\ pc' = "l_outer"
    /\ UNCHANGED <<src, out, disk, envVars, fi, tf, si, s, failures, panic,
                   visited, evlog, memo, pass, disk0, writes, caseVars>>

\* the ? of an error: parse returns
StepFails == Stepped("l_end", [scan EXCEPT !.ok = FALSE])

\* the outer loop on a comment line
StepComment ==
    /\ pc = "l_outer"
    /\ scan.i < Len(scan.lines)
    /\ TrimIsEmpty(TakeUntilHash(scan.lines[scan.i + 1]))
    /\ Stepped("l_outer", [scan EXCEPT !.i = @ + 1, !.outer = scan.i])

\* the outer loop on a directive line: the parser is made and parse_directive
\* parses the directive, up to its argument loop
StepDirective ==
    /\ pc = "l_outer"
    /\ scan.i < Len(scan.lines)
    /\ ~TrimIsEmpty(TakeUntilHash(scan.lines[scan.i + 1]))
    /\ \E line \in {TakeUntilHash(scan.lines[scan.i + 1])} :
          \E d \in {parse_word(line, munch(line, 0), "directive")} :
              IF ~d.ok THEN StepFails
              ELSE Stepped("l_args",
                           [scan EXCEPT !.chars = line, !.idx = d.idx,
                                        !.names = {}, !.outer = scan.i,
                                        !.arg = -1])

\* the outer loop ends
StepEnd ==
    /\ pc = "l_outer"
    /\ ~(scan.i < Len(scan.lines))
    /\ Stepped("l_end", scan)

\* whether the argument at idx has a list of values in parentheses
OpensList(chars, idx, n) ==
    /\ n.ok
    /\ eat(chars, n.idx, "=")
    /\ eat(chars, munch(chars, n.idx + 1), "(")

\* the end of an iteration of the argument loop: the contains_key check and
\* the insert of the argument name, the parser being at idx
ArgDone(name, idx) ==
    IF name \in scan.names THEN StepFails
    ELSE Stepped("l_args",
                 [scan EXCEPT !.names = @ \cup {name}, !.idx = idx])

\* the argument loop on an argument without a list in parentheses
StepArg ==
    /\ pc = "l_args"
    /\ ~at_end(scan.chars, scan.idx)
    /\ ~OpensList(scan.chars, scan.idx,
                  parse_word(scan.chars, scan.idx, "argument name"))
    /\ \E a \in {parse_arg(scan.chars, scan.idx)} :
          IF ~a.ok THEN StepFails
          ELSE IF a.name \in scan.names THEN StepFails
          ELSE Stepped("l_args",
                       [scan EXCEPT !.names = @ \cup {a.name},
                                    !.idx = a.idx, !.arg = scan.idx])

\* the argument loop on an argument with a list: parse_vals up to its loop
StepArgList ==
    /\ pc = "l_args"
    /\ ~at_end(scan.chars, scan.idx)
    /\ \E n \in {parse_word(scan.chars, scan.idx, "argument name")} :
          /\ OpensList(scan.chars, scan.idx, n)
          /\ Stepped("l_vals",
                     [scan EXCEPT
                        !.name = n.word,
                        !.idx = munch(scan.chars,
                                      munch(scan.chars, n.idx + 1) + 1),
                        !.arg = scan.idx, !.val = -1])

\* the argument loop ends, and with it parse_directive: i += 1
StepArgsEnd ==
    /\ pc = "l_args"
    /\ at_end(scan.chars, scan.idx)
    /\ Stepped("l_input", [scan EXCEPT !.i = @ + 1, !.input = -1])

\* the loop of parse_vals on a value
StepVal ==
    /\ pc = "l_vals"
    /\ peek(scan.chars, scan.idx) # ")"
    /\ \E w \in {parse_word(scan.chars, scan.idx, "argument value")} :
          IF ~w.ok THEN StepFails
          ELSE IF eat(scan.chars, w.idx, ",")
          THEN Stepped("l_vals",
                       [scan EXCEPT !.idx = munch(scan.chars, w.idx + 1),
                                    !.val = scan.idx])
          ELSE IF peek(scan.chars, w.idx) = ")"
          THEN ArgDone(scan.name, munch(scan.chars, w.idx + 1))
          ELSE StepFails

\* the loop of parse_vals ends at ")"
StepValsEnd ==
    /\ pc = "l_vals"
    /\ peek(scan.chars, scan.idx) = ")"
    /\ ArgDone(scan.name, munch(scan.chars, scan.idx + 1))

\* the loop of the input block on a line of it
StepInput ==
    /\ pc = "l_input"
    /\ scan.i < Len(scan.lines)
    /\ scan.lines[scan.i + 1] # Dashes
    /\ Stepped("l_input", [scan EXCEPT !.i = @ + 1, !.input = scan.i])

\* the loop of the input block ends: the separator, blank_mode
StepInputEnd ==
    /\ pc = "l_input"
    /\ ~(scan.i < Len(scan.lines) /\ scan.lines[scan.i + 1] # Dashes)
    /\ \E b \in {IsBlankMode(scan.lines, scan.i + 1)} :
          Stepped("l_expected",
                  [scan EXCEPT !.i = IF b THEN @ + 2 ELSE @ + 1,
                               !.blank_mode = b, !.expected = -1])

\* whether the loop of the expected block goes on to another iteration
ExpectedGoesOn(lines, i, blank_mode) ==
    /\ i < Len(lines)
    /\ IF blank_mode
       THEN /\ i + 1 < Len(lines)
            /\ ~(lines[i + 1] = Dashes
                   /\ lines[i + 2] \in {Dashes, NoNewlineMarker})
       ELSE ~TrimIsEmpty(lines[i + 1])

\* the loop of the expected block on a line of it
StepExpected ==
    /\ pc = "l_expected"
    /\ ExpectedGoesOn(scan.lines, scan.i, scan.blank_mode)
    /\ Stepped("l_expected", [scan EXCEPT !.i = @ + 1, !.expected = scan.i])

\* the loop of the expected block ends: an unclosed block is an error,
\* otherwise the test case is pushed and i += 1
StepExpectedEnd ==
    /\ pc = "l_expected"
    /\ ~ExpectedGoesOn(scan.lines, scan.i, scan.blank_mode)
    /\ IF ~(scan.i < Len(scan.lines))
       THEN Stepped("l_outer", [scan EXCEPT !.i = @ + 1])
       ELSE IF scan.blank_mode /\ scan.i + 1 >= Len(scan.lines)
       THEN StepFails
       ELSE IF scan.blank_mode
       THEN Stepped("l_outer", [scan EXCEPT !.i = @ + 3])
       ELSE Stepped("l_outer", [scan EXCEPT !.i = @ + 1])

InitLoops ==
    /\ src = RawSource
    /\ text = <<>>
    /\ pc = "l_call"
    /\ scan = NotScanned
    /\ out = <<>>
    /\ IdleInit
    /\ CaseInit

NextLoops ==
    \/ StepCall
    \/ StepComment \/ StepDirective \/ StepEnd
    \/ StepArg \/ StepArgList \/ StepArgsEnd
    \/ StepVal \/ StepValsEnd
    \/ StepInput \/ StepInputEnd
    \/ StepExpected \/ StepExpectedEnd

\* a call of parse runs on: no step of it waits for anything
SpecLoops == InitLoops /\ [][NextLoops]_vars /\ WF_vars(NextLoops)

(***************************************************************************)
(* Properties.                                                             *)
(***************************************************************************)
Range(q) == {q[k] : k \in 1..Len(q)}

Terminated == pc \in {"done", "panicked"}

\* C1: Round-trip law.  For every file text that TestFile::parse accepts,
\* serializing the parsed stanzas the way run_rewrite does, with the stored
\* expected text of each test case as its result, yields the file text: the
\* same sequence of lines.
C1_RoundTrip == pc = "reproduced" => Lines(out) = Lines(text)

\* C2: The serializer is the inverse of the scanner.  When a test case is
\* serialized with write_result(r) and the text is scanned again, the scan
\* succeeds and the expected text of the test case is r.
C2_SerializerInverse ==
    (pc = "scanned" /\ src.kind = "case") =>
        /\ scan.ok
        /\ scan.stanzas # <<>>
        /\ scan.stanzas[1].type = "Test"
        /\ scan.stanzas[1].expected = src.result

\* C3: Idempotent rewrite.  With a deterministic evaluation function, a
\* second rewriting run leaves every file as the first rewriting run wrote
\* it.
C3_IdempotentRewrite == (pass = 2 /\ pc = "done") => disk = disk0

\* the indices of the test cases among the stanzas
TestIndices(stanzas) ==
    {k \in 1..Len(stanzas) : stanzas[k].type = "Test"}

\* a logged call whose result differs from the stored expected text
IsMismatch(e) ==
    e.outcome.kind = "Ok" /\ e.outcome.val # tf.stanzas[e.stanza].expected

\* a logged call that returned an error
IsError(e) == e.outcome.kind = "Err"

\* the stanzas of the calls before the j-th are the test cases before the
\* stanza of the j-th, each once and in file order
CalledInOrderBefore(j) ==
    /\ \A k \in 1..(j - 1) : evlog[k].stanza < evlog[k + 1].stanza
    /\ {evlog[k].stanza : k \in 1..(j - 1)} =
           {k \in TestIndices(tf.stanzas) : k < evlog[j].stanza}

\* C4: Fail-fast on mismatch.  In a normal pass, once a result differs from
\* the stored expected text, the failure is recorded on the file and no later
\* test case is evaluated; the cases before it were each evaluated once, in
\* file order.
C4_FailFastMismatch ==
    ~env_rewrite =>
        \A j \in 1..Len(evlog) :
            IsMismatch(evlog[j]) =>
                /\ j = Len(evlog)
                /\ pc # "run"
                /\ tf.failure = MismatchFailure(tf.filename,
                                                tf.stanzas[evlog[j].stanza],
                                                evlog[j].outcome.val)
                /\ CalledInOrderBefore(j)

\* a mismatch at a test case that has test cases before and after it, in a
\* run that has ended
C4_Witness ==
    /\ ~env_rewrite
    /\ Terminated
    /\ \E j \in 2..Len(evlog) :
          /\ IsMismatch(evlog[j])
          /\ \E k \in TestIndices(tf.stanzas) : k > evlog[j].stanza

\* C5: Fail-fast on evaluation error.  In a normal pass, when the evaluation
\* function returns an error, the error is recorded as the failure of the
\* file and no later test case is evaluated.
C5_FailFastError ==
    ~env_rewrite =>
        \A j \in 1..Len(evlog) :
            IsError(evlog[j]) =>
                /\ j = Len(evlog)
                /\ pc # "run"
                /\ tf.failure = ErrorFailure(tf.filename,
                                             tf.stanzas[evlog[j].stanza],
                                             evlog[j].outcome.val)

\* the failure message of a logged call that failed
FailureOf(e) ==
    IF IsError(e)
    THEN ErrorFailure(tf.filename, tf.stanzas[e.stanza], e.outcome.val)
    ELSE MismatchFailure(tf.filename, tf.stanzas[e.stanza], e.outcome.val)

Failing == {j \in 1..Len(evlog) : IsError(evlog[j]) \/ IsMismatch(evlog[j])}

\* C6: Failure latch.  During a normal pass the failure slot is written at
\* most once and never cleared; after the pass it is unset iff no test case
\* failed, and otherwise describes the first test case that failed.
C6_FailureLatch ==
    /\ [][(~env_rewrite /\ tf.failure # None) => tf'.failure = tf.failure]_vars
    /\ []((~env_rewrite /\ pc = "ran") =>
            IF Failing = {} THEN tf.failure = None
            ELSE tf.failure =
                   FailureOf(evlog[CHOOSE j \in Failing :
                                       \A k \in Failing : j <= k]))

\* whether the file parses as the walk finds it
Parses(file) == parse(disk0[file]).ok

\* the walk ended by the unwrap of an error of the evaluation function
EvalPanic == panic.kind = "unwrap" /\ panic.err.kind = "Err"

\* C7: Parse-error isolation.  When a file of the walk does not parse, every
\* other file of the walk is still parsed and handed to the callback.
C7_ParseErrorIsolation ==
    (Terminated /\ ~EvalPanic) =>
        \A k \in 1..Len(files) :
            (Parses(files[k]) /\ files[k] \notin excluded) =>
                files[k] \in Range(visited)

\* C8: Deferred aggregated failure.  The walk signals no fatal failure before
\* every file has been visited; after the last file it signals one iff some
\* file latched a failure, with the failures of all failing files in visit
\* order.
C8_DeferredAggregate ==
    /\ pc = "panicked" => fi > Len(files)
    /\ Terminated =>
          /\ pc = "panicked" <=> failures # <<>>
          /\ pc = "panicked" => panic.msg = failures

\* the first test case is in blank-output mode and the file ends before a
\* terminator pair: only comment lines before the directive line p, the first
\* ---- behind it at q, a second ---- at q + 1, and behind that no ----
\* followed by ---- or by ---- (no newline)
BlankUnclosedAt(lines, p) ==
    /\ \A k \in 1..(p - 1) : TrimIsEmpty(TakeUntilHash(lines[k]))
    /\ ~TrimIsEmpty(TakeUntilHash(lines[p]))
    /\ parse_directive(TakeUntilHash(lines[p])).ok
    /\ \E q \in (p + 1)..(Len(lines) - 1) :
          /\ \A k \in (p + 1)..(q - 1) : lines[k] # Dashes
          /\ lines[q] = Dashes
          /\ lines[q + 1] = Dashes
          /\ \A k \in (q + 2)..(Len(lines) - 1) :
                ~(lines[k] = Dashes
                    /\ lines[k + 1] \in {Dashes, NoNewlineMarker})

\* C9: An unclosed blank-mode block is an error.  When a test case is in
\* blank-output mode and the file ends before a terminator pair, parse fails
\* with the unclosed double-separator error naming the line the test case
\* starts at, also when the file ends directly behind the opening pair.
C9_UnclosedIsError ==
    (pc = "scanned" /\ src.kind = "raw") =>
        \A p \in 1..Len(Lines(text)) :
            BlankUnclosedAt(Lines(text), p) =>
                scan = [ok |-> FALSE, err |-> UnclosedError(p)]

\* the stanzas with the stored expected text of every test case erased
EraseExpected(stanzas) ==
    [k \in 1..Len(stanzas) |->
        IF stanzas[k].type = "Test"
        THEN [stanzas[k] EXCEPT !.expected = <<>>]
        ELSE stanzas[k]]

\* the result the evaluation function returned for stanza k
ResultAt(k) == (CHOOSE e \in Range(evlog) : e.stanza = k).outcome.val

\* the file text made of the stanzas from the k-th on: a comment's text and
\* a line feed; the directive line, a line feed, the input block and the
\* framed result of a test case
RECURSIVE RewrittenFrom(_, _)
RewrittenFrom(stanzas, k) ==
    IF k > Len(stanzas) THEN <<>>
    ELSE (IF stanzas[k].type = "Test"
          THEN write_result(stanzas[k].directive_line \o <<NL>>
                              \o stanzas[k].input, ResultAt(k))
          ELSE stanzas[k].text \o <<NL>>)
         \o RewrittenFrom(stanzas, k + 1)

\* the run of the file has returned
RunReturned == pc = "ran" \/ (pc \in {"walk", "done"} /\ fi > Len(files))

\* C10: The rewrite pass records no failure and ignores the stored expected
\* text.  The failure slot stays unset, and the text written is made of the
\* comments, the directive lines, the input blocks and the evaluation
\* results alone.
C10_RewriteIgnoresExpected ==
    env_rewrite =>
        /\ tf.failure = None
        /\ failures = <<>>
        /\ (RunReturned /\ visited # <<>>) =>
              disk[tf.filename] = RewrittenFrom(EraseExpected(tf.stanzas), 1)

\* a rewrite pass over two test cases or more, one of them with a result that
\* differs from the stored expected text, has written the file
C10_Witness ==
    /\ env_rewrite
    /\ RunReturned
    /\ Len(evlog) >= 2
    /\ \E j \in 1..Len(evlog) : IsMismatch(evlog[j])
    /\ disk # disk0

\* the calls of the evaluation function for the test cases of a file
EvalsOf(file) == {k \in 1..Len(evlog) : evlog[k].file = file}

\* C11: Single whole-file write.  A rewrite pass writes a file at most once
\* in a run, and only after the evaluation function has returned a result for
\* every test case of the file; when an evaluation returns an error no write
\* has happened and the file on disk is as it was.  A normal pass never
\* writes.
C11_SingleWrite ==
    /\ \A i, j \in 1..Len(writes) :
          (writes[i].file = writes[j].file /\ writes[i].pass = writes[j].pass)
              => i = j
    /\ \A i \in 1..Len(writes) :
          writes[i].file = tf.filename =>
              /\ {evlog[k].stanza : k \in EvalsOf(tf.filename)} =
                     TestIndices(tf.stanzas)
              /\ \A k \in EvalsOf(tf.filename) :
                     k <= writes[i].evals /\ evlog[k].outcome.kind = "Ok"
    /\ (pc = "panicked" /\ EvalPanic) =>
          /\ \A i \in 1..Len(writes) : writes[i].file # tf.filename
          /\ disk[tf.filename] = disk0[tf.filename]
    /\ ~env_rewrite => (writes = <<>> /\ disk = disk0)
    /\ writes = <<>> => disk = disk0

\* a rewrite pass over two test cases or more has written the file
C11_Witness ==
    /\ env_rewrite
    /\ writes # <<>>
    /\ Len(evlog) >= 2
    /\ disk # disk0

\* the list in reverse order
RECURSIVE Reverse(_)
Reverse(q) == IF q = <<>> THEN <<>> ELSE Reverse(Tail(q)) \o <<Head(q)>>

\* the map a list of arguments of distinct names stands for
ArgMap(arglist) ==
    [n \in {arglist[k].name : k \in 1..Len(arglist)} |->
        (CHOOSE a \in Range(arglist) : a.name = n).vals]

\* no argument has a comma before its closing parenthesis
NoTrailingComma(arglist) ==
    \A k \in 1..Len(arglist) : arglist[k].form # "comma"

DirParsed == pc = "parsed" /\ src.kind = "dir"

\* C12: Directive grammar result.  For an accepted directive line the result
\* is the first word as directive and a map in which an argument written
\* without = maps to the empty list, name=v to [v] and name=(v1,...,vn) to
\* [v1,...,vn] in written order; the line with its arguments in another order
\* gives the same result.
C12_DirectiveGrammar ==
    (DirParsed /\ scan.ok /\ NoTrailingComma(src.arglist)) =>
        /\ scan.directive = src.directive
        /\ scan.args = ArgMap(src.arglist)
        /\ parse_directive(RenderLine(
               [src EXCEPT !.arglist = Reverse(src.arglist)])) = scan

\* an accepted line with two arguments or more, one of them a list of two
\* values
C12_Witness ==
    /\ DirParsed
    /\ scan.ok
    /\ NoTrailingComma(src.arglist)
    /\ Len(src.arglist) >= 2
    /\ \E k \in 1..Len(src.arglist) : Len(src.arglist[k].vals) = 2

\* the places of the arguments whose name an earlier argument has
Duplicates(arglist) ==
    {j \in 1..Len(arglist) : \E i \in 1..(j - 1) :
        arglist[i].name = arglist[j].name}

\* the name of the first argument whose name an earlier argument has
FirstDuplicate(arglist) ==
    arglist[CHOOSE j \in Duplicates(arglist) :
                \A k \in Duplicates(arglist) : j <= k].name

\* C13: Duplicate-argument rejection.  A directive line in which an argument
\* name occurs more than once, in whatever value forms, fails with the
\* duplicate-argument error, and no map is returned for such a line.
C13_DuplicateRejected ==
    (DirParsed /\ Duplicates(src.arglist) # {}) =>
        /\ ~scan.ok
        /\ NoTrailingComma(src.arglist) =>
              scan.err = ParseError("duplicate argument: {}", "",
                                    FirstDuplicate(src.arglist), 0)

\* a line of three arguments in the three value forms whose last argument
\* has the name of the first
C13_Witness ==
    /\ DirParsed
    /\ Len(src.arglist) = 3
    /\ NoTrailingComma(src.arglist)
    /\ src.arglist[1].name = src.arglist[3].name
    /\ src.arglist[1].name # src.arglist[2].name
    /\ {src.arglist[k].form : k \in 1..3} = {"flag", "single", "list"}
    /\ ~scan.ok

\* C14: A trailing comma is rejected.  A directive line with a value list in
\* which a comma is directly followed by the closing parenthesis fails to
\* parse.
C14_TrailingCommaRejected ==
    (DirParsed /\ ~NoTrailingComma(src.arglist)) => ~scan.ok

\* the take operations on an argument that was in the map
Present(e) == e.arg \in DOMAIN e.before

\* the operation found the argument and returned Ok
Consumed(e) == Present(e) /\ e.res.kind = "Ok"

\* the operation answered as for an argument that is not in the map
SeenAbsent(e) ==
    IF e.op = "take_flag" THEN e.res = OkRes(FALSE, FALSE, <<>>)
    ELSE IF e.op \in {"try_take_arg", "try_take_args"}
    THEN e.res = OkRes(FALSE, FALSE, <<>>)
    ELSE e.res = ErrRes(ArgumentError("no argument named {}", e.arg, 0, None))

\* C15: try_take_arg arity.  For an argument that is in the map,
\* try_take_arg returns an error whenever the value list has not exactly one
\* entry, none as well as two or more; it returns the absent marker only
\* when the key is not in the map.
C15_TryTakeArgArity ==
    \A k \in 1..Len(tlog) :
        tlog[k].op = "try_take_arg" =>
            /\ (Present(tlog[k]) /\ Len(tlog[k].before[tlog[k].arg]) # 1)
                  => tlog[k].res.kind = "Err"
            /\ (tlog[k].res.kind = "Ok" /\ ~tlog[k].res.some)
                  => ~Present(tlog[k])

\* C16: expect_empty reports exactly the unconsumed arguments.  After any
\* take operations expect_empty succeeds iff the map is empty and otherwise
\* fails naming exactly the keys still in the map; it leaves the map as it
\* is, and a take operation on a name leaves every other entry as it is.
C16_ExpectEmptyExact ==
    /\ (ret # None /\ ret.op = "expect_empty") =>
          /\ ret.res.kind = "Ok" <=> DOMAIN args = {}
          /\ ret.res.kind = "Err" =>
                /\ ret.res.err.kind = "DidntUseAllArguments"
                /\ Range(ret.res.err.keys) = DOMAIN args
                /\ Len(ret.res.err.keys) = Cardinality(DOMAIN args)
          /\ ret.after = ret.before
          /\ args = ret.before
    /\ \A k \in 1..Len(tlog) :
          /\ DOMAIN tlog[k].after \subseteq DOMAIN tlog[k].before
          /\ \A n \in DOMAIN tlog[k].before \ {tlog[k].arg} :
                /\ n \in DOMAIN tlog[k].after
                /\ tlog[k].after[n] = tlog[k].before[n]

\* expect_empty fails behind a take operation that consumed one of two
\* arguments
C16_Witness ==
    /\ ret # None
    /\ ret.op = "expect_empty"
    /\ ret.res.kind = "Err"
    /\ Len(tlog) = 1
    /\ Consumed(tlog[1])
    /\ Cardinality(DOMAIN tlog[1].before) = 2

\* C17: Consume-once.  After a take operation has consumed an argument,
\* every later take operation on it sees it as absent: take_flag returns
\* false, try_take_arg and try_take_args the absent marker, take_arg and
\* take_args fail.
C17_ConsumeOnce ==
    \A i, j \in 1..Len(tlog) :
        (i < j /\ tlog[i].arg = tlog[j].arg /\ Consumed(tlog[i]))
            => SeenAbsent(tlog[j])

\* an argument is consumed and then taken again
C17_Witness ==
    /\ Len(tlog) >= 2
    /\ tlog[1].arg = tlog[2].arg
    /\ Consumed(tlog[1])
    /\ tlog[1].res.some
    /\ tlog[2].op = "take_arg"

\* a test case was serialized and the text scanned again
CaseScanned == pc = "scanned" /\ src.kind = "case"

\* the directive line and the input block the serialization starts with
CaseHead == src.directive_line \o <<NL>> \o src.input

DoubleSeparator == Dashes \o <<NL>> \o Dashes \o <<NL>>

\* the scan gave one test case whose expected text is the result
ScansBack ==
    /\ scan.ok
    /\ scan.stanzas # <<>>
    /\ scan.stanzas[1].type = "Test"
    /\ scan.stanzas[1].expected = src.result

\* C18: Blank-mode necessity.  A result that ends in a line feed and holds
\* an empty line is serialized between two double separators, and the scan
\* of that text gives the result back as the expected text.
C18_BlankModeNecessity ==
    (CaseScanned /\ EndsWithNL(src.result) /\ ContainsBlankLine(src.result))
        => /\ text = CaseHead \o DoubleSeparator \o src.result
                        \o DoubleSeparator
           /\ ScansBack

\* C19: No-newline round trip.  A result that is not empty and does not end
\* in a line feed is serialized in blank-mode framing closed by ---- and
\* ---- (no newline), and the scan of that text gives the result back as the
\* expected text, with no line feed added.
C19_NoNewlineRoundTrip ==
    (CaseScanned /\ src.result # <<>> /\ ~EndsWithNL(src.result))
        => /\ text = CaseHead \o DoubleSeparator \o src.result \o <<NL>>
                        \o Dashes \o <<NL>> \o NoNewlineMarker \o <<NL>>
           /\ ScansBack

\* the stanzas of the file run_normal_async drains
FileStanzas == parse(disk[tf.filename]).stanzas

\* the futures started and not done
InFlight ==
    {i \in 1..Len(alog) :
        /\ alog[i].ev = "start"
        /\ \A j \in (i + 1)..Len(alog) :
              ~(alog[j].ev = "done" /\ alog[j].stanza = alog[i].stanza)}

\* C20: Async sequential evaluation.  In a normal pass of run_async the test
\* cases of a file are evaluated in file order, the evaluation of a case is
\* not started before that of the case before it is done, no two
\* evaluations are in flight at once, and no case after the first
\* mismatching one is started.
C20_AsyncSequential ==
    (pc \in {"arun", "await", "aran"}) =>
        /\ Cardinality(InFlight) <= 1
        /\ \A k \in 1..Len(alog) :
              /\ alog[k].ev = (IF k % 2 = 1 THEN "start" ELSE "done")
              /\ k % 2 = 0 => alog[k].stanza = alog[k - 1].stanza
              /\ alog[k].ev = "start" =>
                    {alog[i].stanza : i \in 1..(k - 1)} =
                        {i \in TestIndices(FileStanzas) : i < alog[k].stanza}
              /\ (alog[k].ev = "done" /\ alog[k].result # alog[k].expected)
                    => (k = Len(alog) /\ pc = "aran")
        /\ pc = "aran" =>
              (\/ \E k \in 1..Len(alog) :
                     alog[k].ev = "done" /\ alog[k].result # alog[k].expected
               \/ {alog[k].stanza : k \in 1..Len(alog)} =
                     TestIndices(FileStanzas))

\* a pass over three test cases has ended at the mismatch of the second
C20_Witness ==
    /\ pc = "aran"
    /\ Cardinality(TestIndices(FileStanzas)) = 3
    /\ Len(alog) = 4
    /\ alog[2].result = alog[2].expected
    /\ alog[4].result # alog[4].expected

\* the files of the walk the exclusion matcher answers true for
ExcludedFiles == {k \in 1..Len(files) : files[k] \in excluded}

\* C21: walk_exclusive returns the number of files the exclusion matcher
\* excluded from the walk: 1 for a directory in which exactly one file
\* matches.
C21_ReturnsExcludedCount ==
    pc = "done" =>
        ret = [kind |-> "usize", val |-> Cardinality(ExcludedFiles)]

\* the stanzas of the file as TestFile::new scanned them
ScannedStanzas == parse(disk0[tf.filename]).stanzas

\* C22: Rewrite preserves everything that is not test output.  A rewrite
\* pass writes each comment with its stored text and, for each test case, the
\* directive line with its trailing comment and the input block as they were
\* scanned, in stanza order, whatever the evaluation function took from the
\* argument map.
C22_RewritePreserves ==
    (env_rewrite /\ RunReturned /\ visited # <<>>) =>
        /\ Len(tf.stanzas) = Len(ScannedStanzas)
        /\ disk[tf.filename] = RewrittenFrom(ScannedStanzas, 1)

\* a rewrite pass has written a file with a comment and a test case from
\* whose argument map the evaluation function took an argument
C22_Witness ==
    /\ env_rewrite
    /\ RunReturned
    /\ visited # <<>>
    /\ \E k \in TestIndices(ScannedStanzas) :
          /\ ScannedStanzas[k].args # EmptyMap
          /\ tf.stanzas[k].args = EmptyMap
    /\ \E k \in 1..Len(ScannedStanzas) : ScannedStanzas[k].type = "Comment"

\* a text was scanned as it stands
RawScanned == pc = "scanned" /\ src.kind = "raw"

\* line p is the first line that is no comment line: a directive line
FirstDirectiveAt(lines, p) ==
    /\ \A k \in 1..(p - 1) : TrimIsEmpty(TakeUntilHash(lines[k]))
    /\ ~TrimIsEmpty(TakeUntilHash(lines[p]))

\* the error TestFile::new gives for a grammar error of line p
GrammarErrorAt(lines, p, filename) ==
    [kind |-> "WithContext", line |-> p, filename |-> filename,
     inner |-> parse_directive(TakeUntilHash(lines[p])).err]

\* what TestFile::new returns for the file f1 with the text scanned
NewOfScan == NewResult(scan, FileNames[1])

\* C23: Grammar errors carry position.  When the directive line at 0-indexed
\* position i fails grammar parsing, TestFile::new returns a WithContext
\* error with line i + 1 and the name of the file; with_filename keeps the
\* line of an error that has one, with_line keeps the file name of an error
\* that has one.
C23_GrammarErrorPosition ==
    RawScanned =>
        /\ \A p \in 1..Len(Lines(text)) :
              (/\ FirstDirectiveAt(Lines(text), p)
               /\ ~parse_directive(TakeUntilHash(Lines(text)[p])).ok)
                  => NewOfScan =
                       [ok |-> FALSE,
                        err |-> GrammarErrorAt(Lines(text), p, FileNames[1])]
        /\ (~scan.ok /\ scan.err.kind = "WithContext") =>
              /\ scan.err.line \in 1..Len(Lines(text))
              /\ ~parse_directive(
                     TakeUntilHash(Lines(text)[scan.err.line])).ok
              /\ NewOfScan.err =
                     GrammarErrorAt(Lines(text), scan.err.line, FileNames[1])
              /\ with_line(NewOfScan.err, 9) =
                     [NewOfScan.err EXCEPT !.line = 9]
              /\ with_filename(with_line(scan.err.inner, 9), FileNames[2]) =
                     [kind |-> "WithContext", line |-> 9,
                      filename |-> FileNames[2], inner |-> scan.err.inner]

\* a directive line behind a test case, at line 3 or later, fails grammar
\* parsing
C23_Witness ==
    /\ RawScanned
    /\ ~scan.ok
    /\ scan.err.kind = "WithContext"
    /\ scan.err.line >= 3
    /\ ~FirstDirectiveAt(Lines(text), scan.err.line)

\* the lines the stanzas store, in the order of the stanzas
RECURSIVE StoredLines(_)
StoredLines(stanzas) ==
    IF stanzas = <<>> THEN <<>>
    ELSE (IF Head(stanzas).type = "Comment" THEN <<Head(stanzas).text>>
          ELSE <<Head(stanzas).directive_line>>
                   \o Lines(Head(stanzas).input)
                   \o Lines(Head(stanzas).expected))
         \o StoredLines(Tail(stanzas))

\* neither a separator line nor a blank line
HasContent(l) == l \notin {Dashes, NoNewlineMarker} /\ ~TrimIsEmpty(l)

\* C24: No line is silently dropped by the scanner.  Every line of the file
\* is stored in exactly one stanza, or is a separator line (---- or
\* ---- (no newline)), or is the blank line that ends an expected block; the
\* line skipped behind an expected block, in non-blank mode and in blank
\* mode, is always a blank line.
C24_NoLineDropped ==
    (RawScanned /\ scan.ok) =>
        /\ SelectSeq(Lines(text), HasContent) =
              SelectSeq(StoredLines(scan.stanzas), HasContent)
        /\ \A k \in SkippedLoop(Lines(text), 0, {}) :
              TrimIsEmpty(Lines(text)[k])

\* the take operation found the argument and returned an error
FailedTake(e) == Present(e) /\ e.res.kind = "Err"

\* C25: Failed takes still consume.  Every take operation removes the entry
\* of its argument from the map even when it returns an error, so an
\* expect_empty that follows does not name that argument, and a later take
\* operation on it sees it as absent.
C25_FailedTakeConsumes ==
    /\ \A k \in 1..Len(tlog) :
          FailedTake(tlog[k]) =>
              /\ tlog[k].arg \notin DOMAIN tlog[k].after
              /\ tlog[k].arg \notin DOMAIN args
              /\ \A j \in (k + 1)..Len(tlog) :
                    tlog[j].arg = tlog[k].arg => SeenAbsent(tlog[j])
    /\ (ret # None /\ ret.op = "expect_empty") =>
          \A k \in 1..Len(tlog) :
              /\ ret.res.kind = "Err" =>
                    tlog[k].arg \notin Range(ret.res.err.keys)
              /\ (DOMAIN tlog[1].before = {tlog[m].arg : m \in 1..Len(tlog)})
                    => ret.res.kind = "Ok"

\* take_flag fails on an argument with values, and the expect_empty that
\* follows names the other argument only
C25_Witness ==
    /\ ret # None
    /\ ret.op = "expect_empty"
    /\ ret.res.kind = "Err"
    /\ Len(tlog) = 1
    /\ tlog[1].op = "take_flag"
    /\ FailedTake(tlog[1])
    /\ Len(ret.res.err.keys) = 1

\* at the head of each loop, the index is beyond the index the latest
\* iteration of the loop started from
LoopsAdvance ==
    /\ pc = "l_outer" => scan.outer < scan.i
    /\ pc = "l_input" => scan.input < scan.i
    /\ pc = "l_expected" => scan.expected < scan.i
    /\ pc = "l_args" => scan.arg < scan.idx
    /\ pc = "l_vals" => scan.val < scan.idx

LoopsEnded == pc = "l_end"

\* C26: The scanner and the grammar parser terminate.  The line index
\* strictly increases in every iteration of the outer loop and of each slurp
\* loop of the scanner; every iteration of the argument loop and of the
\* value-list loop of the directive parser consumes at least one character
\* or fails; so every call of parse comes to its end.
C26_LoopsTerminate == []LoopsAdvance /\ <>LoopsEnded

\* a scan came to its end with success, behind a second iteration of the
\* value-list loop, of the argument loop, of both slurp loops and of the
\* outer loop
C26_Witness ==
    /\ LoopsEnded
    /\ scan.ok
    /\ scan.val >= 0
    /\ scan.arg > 0
    /\ scan.input >= 0
    /\ scan.expected >= 0
    /\ scan.outer > 0

=============================================================================
